---- MODULE Spec2Model ----
(***************************************************************************)
(* Model of src/casino_simulator.py: the Martingale bet engine (one_bet),  *)
(* the player session (single_game_simulation), the population loop        *)
(* (game_simulation, loose_chance) and the body of one scenario of the     *)
(* sweep (full_simulation, lines 135-144).                                 *)
(*                                                                         *)
(* Money is modelled with integers (the values main() passes are integers  *)
(* and Python integers do not overflow).                                   *)
(***************************************************************************)
EXTENDS Integers, Sequences, FiniteSets, TLC

VARIABLES
    \* arguments of CasinoSimulator.__init__ / fields of the instance
    n_games, chosen_color, start_money, rate, first_game_money,
    current_money,      \* self.current_money
    \* arguments of full_simulation
    n_gamers, play_till_win,
    \* locals of single_game_simulation
    won_money, one_game_money, color, i,
    \* local list won_money of game_simulation (line 102)
    won_list,
    \* full_simulation: result (line 139) and loosers_perc (line 143)
    result, loosers_perc,
    \* control: statement of full_simulation being executed, position in a session
    call, pc,
    \* history (not program state): colours sampled in the current session,
    \* sum of signed stakes of the current session, whether the session
    \* returned through line 87, whether history is recorded, and the number
    \* of rounds of the current session modulo 2
    outs, net_sum, ruin, track, parity

vars == <<n_games, chosen_color, start_money, rate, first_game_money,
          current_money, n_gamers, play_till_win, won_money, one_game_money,
          color, i, won_list, result, loosers_perc, call, pc,
          outs, net_sum, ruin, track, parity>>

config == <<n_games, chosen_color, start_money, rate, first_game_money>>

\* ---- bounds of the model ----
MaxGames  == 2      \* n_games ranges over 1..MaxGames
MaxStart  == 2      \* start_money ranges over 0..MaxStart
MaxRate   == 2      \* rate ranges over 1..MaxRate
MaxFirst  == 2      \* first_game_money ranges over 1..MaxFirst
MaxGamers == 1      \* n_gamers ranges over 1..MaxGamers
MaxExt    == 3      \* losing rounds allowed in the extension phase (recorded runs)
MaxBet    == 4      \* largest stake a losing extension round may produce (unrecorded runs)

Colors == {"black", "red"}      \* np.random.choice(["black", "red"])

Unbound == "unbound"            \* the local `color` before its first assignment

\* ---- helpers ----
RECURSIVE Pow(_, _)
Pow(b, e) == IF e = 0 THEN 1 ELSE b * Pow(b, e - 1)

RECURSIVE CountNeg(_)
\* won_money[won_money < 0].shape[0]
CountNeg(s) ==
    IF s = <<>> THEN 0
    ELSE (IF Head(s) < 0 THEN 1 ELSE 0) + CountNeg(Tail(s))

\* pd.Series(won_money) - self._start_money
MinusStart(s) == [k \in 1..Len(s) |-> s[k] - start_money]

\* ---- one_bet (lines 53-70): <<current_money, one_game_money>> ----
one_bet_no_escalation(c, won, bet) ==
    IF c # chosen_color
    THEN <<start_money + (won - bet), bet>>
    ELSE <<start_money + (won + bet), first_game_money>>

one_bet_win_pays_nothing(c, won, bet) ==
    IF c # chosen_color
    THEN <<start_money + (won - bet), bet * rate>>
    ELSE <<start_money + (won - bet), first_game_money>>

one_bet(c, won, bet) ==
    IF c # chosen_color
    THEN <<start_money + (won - bet), bet * rate>>
    ELSE <<start_money + (won + bet), first_game_money>>

\* line 86: if self.current_money < 0
IsRuinedOffByOne(m) == m < -1

IsRuined(m) == m < 0

\* line 89: if color != self.chosen_color and play_till_win
ExtensionEnteredIgnoringFlag(c, ptw) == c # chosen_color

ExtensionEntered(c, ptw) == c # chosen_color /\ ptw

\* line 90: while color != self.chosen_color
LoopCondNeverExits(c) == TRUE

LoopCond(c) == c # chosen_color

\* line 80: one_game_money = self._first_game_money
InitialBetCarriedOver == one_game_money

InitialBet == first_game_money

\* the play_till_win a session runs under: line 139 passes the parameter of
\* full_simulation, line 143 passes the literal True
Ptw == IF call = "game_simulation" THEN play_till_win ELSE TRUE

\* ---- initial states ----
InitWith(NG, SM, RT, FM, NP, TR) ==
    /\ n_games \in NG
    /\ chosen_color \in Colors
    /\ start_money \in SM
    /\ rate \in RT
    /\ first_game_money \in FM
    /\ n_gamers \in NP
    /\ play_till_win \in BOOLEAN
    /\ track = TR
    /\ current_money = 0
    /\ won_money = 0
    /\ one_game_money = 0
    /\ color = Unbound
    /\ i = 0
    /\ won_list = <<>>
    /\ result = <<>>
    /\ loosers_perc = <<0, 0>>
    /\ call = "game_simulation"
    /\ pc = "construct"
    /\ outs = <<>>
    /\ net_sum = 0
    /\ ruin = FALSE
    /\ parity = 0

\* configurations satisfying the invariant of the data model
Init == InitWith(1..MaxGames, 0..MaxStart, 1..MaxRate, 1..MaxFirst, 1..MaxGamers, TRUE)

\* every configuration the constructor is handed, invalid ones included
InitAny == InitWith(0..MaxGames, 0..MaxStart, 0..MaxRate, 0..MaxFirst, 0..MaxGamers, TRUE)

\* one player, history not recorded, extension phase not capped in rounds
InitLive == InitWith(1..MaxGames, 0..MaxStart, 1..MaxRate, 1..MaxFirst, {1}, FALSE)

\* ---- actions ----
\* __init__ (lines 21-35), called at line 138: no argument is checked
Construct ==
    /\ pc = "construct"
    /\ current_money' = start_money
    /\ pc' = "idle"
    /\ UNCHANGED <<config, n_gamers, play_till_win, won_money, one_game_money,
                   color, i, won_list, result, loosers_perc, call,
                   outs, net_sum, ruin, track, parity>>

\* game_simulation lines 103-104 entering single_game_simulation lines 78-80
StartSession ==
    /\ pc = "idle"
    /\ call \in {"game_simulation", "loose_chance"}
    /\ Len(won_list) < n_gamers
    /\ won_money' = 0
    /\ current_money' = start_money
    /\ one_game_money' = InitialBet
    /\ i' = 0
    /\ color' = Unbound
    /\ pc' = "fixed"
    /\ outs' = <<>>
    /\ net_sum' = 0
    /\ ruin' = FALSE
    /\ parity' = 0
    /\ UNCHANGED <<config, n_gamers, play_till_win, won_list, result,
                   loosers_perc, call, track>>

\* history of one round played with stake one_game_money and outcome c
Record(c) ==
    /\ parity' = 1 - parity
    /\ IF track
       THEN /\ outs' = Append(outs, c)
            /\ net_sum' = IF c # chosen_color THEN net_sum - one_game_money
                                              ELSE net_sum + one_game_money
       ELSE UNCHANGED <<outs, net_sum>>

\* one iteration of the for loop, lines 82-87
FixedRound(c) ==
    /\ pc = "fixed"
    /\ i < n_games
    /\ LET r == one_bet(c, won_money, one_game_money) IN
        /\ color' = c
        /\ current_money' = r[1]
        /\ one_game_money' = r[2]
        /\ IF IsRuined(r[1])
           THEN /\ won_list' = Append(won_list, 0)
                /\ ruin' = TRUE
                /\ pc' = "idle"
                /\ i' = i
           ELSE /\ i' = i + 1
                /\ UNCHANGED <<won_list, ruin, pc>>
    /\ Record(c)
    /\ UNCHANGED <<config, n_gamers, play_till_win, won_money, result,
                   loosers_perc, call, track>>

\* line 89 after the for loop, and line 94 when the extension is not entered
AfterFixed ==
    /\ pc = "fixed"
    /\ i >= n_games
    /\ color # Unbound
    /\ IF ExtensionEntered(color, Ptw)
       THEN /\ pc' = "ext"
            /\ UNCHANGED won_list
       ELSE /\ pc' = "idle"
            /\ won_list' = Append(won_list, current_money)
    /\ UNCHANGED <<config, current_money, n_gamers, play_till_win, won_money,
                   one_game_money, color, i, result, loosers_perc, call,
                   outs, net_sum, ruin, track, parity>>

\* line 89 when range(n_games) was empty: `color` was never assigned
UnboundColor ==
    /\ pc = "fixed"
    /\ i >= n_games
    /\ color = Unbound
    /\ pc' = "error"
    /\ UNCHANGED <<config, current_money, n_gamers, play_till_win, won_money,
                   one_game_money, color, i, won_list, result, loosers_perc,
                   call, outs, net_sum, ruin, track, parity>>

\* a losing extension round is allowed only below the cap of the run
BelowCap ==
    IF track THEN Len(outs) < n_games + MaxExt
             ELSE one_game_money * rate <= MaxBet

\* one iteration of the while loop, lines 90-92
ExtRound(c) ==
    /\ pc = "ext"
    /\ LoopCond(color)
    /\ (c # chosen_color) => BelowCap
    /\ LET r == one_bet(c, won_money, one_game_money) IN
        /\ color' = c
        /\ current_money' = r[1]
        /\ one_game_money' = r[2]
    /\ Record(c)
    /\ UNCHANGED <<config, n_gamers, play_till_win, won_money, i, won_list,
                   result, loosers_perc, call, pc, ruin, track>>

\* the extension round on which the chosen colour is sampled
ExtWin == ExtRound(chosen_color)

\* the while loop exits, line 94
ExtReturn ==
    /\ pc = "ext"
    /\ ~LoopCond(color)
    /\ pc' = "idle"
    /\ won_list' = Append(won_list, current_money)
    /\ UNCHANGED <<config, current_money, n_gamers, play_till_win, won_money,
                   one_game_money, color, i, result, loosers_perc, call,
                   outs, net_sum, ruin, track, parity>>

\* game_simulation returns to line 139 (line 106), lines 141-142
GameSimulationReturn ==
    /\ pc = "idle"
    /\ call = "game_simulation"
    /\ Len(won_list) >= n_gamers
    /\ result' = MinusStart(won_list)
    /\ won_list' = <<>>
    /\ call' = "loose_chance"
    /\ UNCHANGED <<config, current_money, n_gamers, play_till_win, won_money,
                   one_game_money, color, i, loosers_perc, pc,
                   outs, net_sum, ruin, track, parity>>

\* game_simulation returns to line 116 (line 106), lines 118 and 143-144
LooseChanceReturn ==
    /\ pc = "idle"
    /\ call = "loose_chance"
    /\ Len(won_list) >= n_gamers
    /\ Len(won_list) # 0
    /\ loosers_perc' = <<CountNeg(MinusStart(won_list)), Len(won_list)>>
    /\ call' = "done"
    /\ UNCHANGED <<config, current_money, n_gamers, play_till_win, won_money,
                   one_game_money, color, i, won_list, result, pc,
                   outs, net_sum, ruin, track, parity>>

\* line 118 with an empty series: 0 / 0
ZeroDivision ==
    /\ pc = "idle"
    /\ call = "loose_chance"
    /\ Len(won_list) >= n_gamers
    /\ Len(won_list) = 0
    /\ pc' = "error"
    /\ UNCHANGED <<config, current_money, n_gamers, play_till_win, won_money,
                   one_game_money, color, i, won_list, result, loosers_perc,
                   call, outs, net_sum, ruin, track, parity>>

Next ==
    \/ Construct
    \/ StartSession
    \/ \E c \in Colors : FixedRound(c)
    \/ AfterFixed
    \/ \E c \in Colors : ExtRound(c)
    \/ ExtReturn
    \/ GameSimulationReturn
    \/ LooseChanceReturn

NextAny ==
    \/ Next
    \/ UnboundColor
    \/ ZeroDivision

Spec == Init /\ [][Next]_vars

SpecAny == InitAny /\ [][NextAny]_vars

\* the program keeps executing, and the chosen colour is eventually sampled
SpecLive == InitLive /\ [][Next]_vars /\ WF_vars(Next) /\ SF_vars(ExtWin)

\* the program keeps executing, nothing assumed about the sampled colours
SpecWeak == InitLive /\ [][Next]_vars /\ WF_vars(Next)

TypeOK ==
    /\ pc \in {"construct", "idle", "fixed", "ext", "error"}
    /\ call \in {"game_simulation", "loose_chance", "done"}
    /\ color \in Colors \cup {Unbound}
    /\ Len(won_list) <= n_gamers

\* ---- operators used to state the properties ----
\* number of losses at the end of the sequence of sampled colours
RECURSIVE TrailingLosses(_)
TrailingLosses(os) ==
    IF os = <<>> \/ os[Len(os)] = chosen_color THEN 0
    ELSE 1 + TrailingLosses(SubSeq(os, 1, Len(os) - 1))

\* a session has returned and its value is the last element of won_list
Returned == pc = "idle" /\ Len(won_list) > 0

ReturnedValue == won_list[Len(won_list)]

ValidConfig ==
    /\ n_games > 0
    /\ first_game_money > 0
    /\ rate >= 1
    /\ n_gamers > 0

\* ---- properties ----

\* C1: every value returned by a player session is >= 0 (start_money >= 0,
\* first_game_money > 0, rate >= 1).
ReturnNonNegative ==
    (start_money >= 0 /\ first_game_money > 0 /\ rate >= 1)
        => \A k \in 1..Len(won_list) : won_list[k] >= 0

\* a ruined session has returned 0
RuinReturnedZero == Returned /\ ruin /\ ReturnedValue = 0 /\ current_money < 0

\* C2: net winnings are cumulative: the bankroll after round k is start_money
\* plus the sum of the signed stakes of rounds 1..k.
NetWinningsCumulative ==
    (pc \in {"fixed", "ext", "idle"} /\ Len(outs) > 0)
        => current_money = start_money + net_sum

\* C3: the ruin check is applied after every round of both phases: no round is
\* played, and no phase continued, with a negative bankroll.
RuinCheckEveryRound ==
    pc \in {"fixed", "ext"} => current_money >= 0

\* C4: Martingale rule: the stake of the next round is first_game_money times
\* rate to the number of consecutive losses immediately preceding it (so the
\* first stake and the stake after a win are first_game_money, and a loss
\* multiplies the stake by rate).
MartingaleStake ==
    pc \in {"fixed", "ext"}
        => one_game_money = first_game_money * Pow(rate, TrailingLosses(outs))

\* a win reset the stake and two later losses escalated it twice
StakeEscalatedAfterReset ==
    /\ pc \in {"fixed", "ext"}
    /\ rate > 1
    /\ TrailingLosses(outs) = 2
    /\ Len(outs) > 2
    /\ one_game_money = first_game_money * rate * rate

\* C5: the reported loss probability of a scenario is the number of negative
\* entries of that scenario's reported outcomes divided by the player count.
LossProbabilityFromOutcomes ==
    call = "done" => loosers_perc = <<CountNeg(result), n_gamers>>

\* C6: an invalid configuration is rejected at construction: nothing runs
\* past the constructor with n_games <= 0, first_game_money <= 0, rate < 1 or
\* n_gamers <= 0.
InvalidConfigRejected ==
    pc # "construct" => ValidConfig

\* the bankroll single_game_simulation returns when it starts from lines 78-80
\* and samples exactly the colours os
RECURSIVE RunFrom(_, _, _, _)
RunFrom(os, k, bet, cur) ==
    IF k > Len(os) THEN cur
    ELSE LET r == one_bet(os[k], 0, bet) IN
         IF k <= n_games /\ IsRuined(r[1]) THEN 0
         ELSE RunFrom(os, k + 1, r[2], r[1])

SessionValue(os) == RunFrom(os, 1, first_game_money, start_money)

\* every session starts from net winnings 0, the starting bankroll and the first stake
StartsFresh ==
    (pc = "fixed" /\ i = 0)
        => /\ won_money = 0
           /\ current_money = start_money
           /\ one_game_money = first_game_money
           /\ color = Unbound

\* the value a session returned depends on its own sampled colours only
ValueOfOwnOutcomes == Returned => ReturnedValue = SessionValue(outs)

\* C7: sessions run one after another on one instance are independent: each
\* starts from net winnings 0, bankroll start_money and stake
\* first_game_money, its returned value is determined by the configuration
\* and its own sampled colours whatever ran before, and no step changes
\* n_games, chosen_color, start_money, rate or first_game_money.
SessionsIndependent ==
    /\ [](StartsFresh /\ ValueOfOwnOutcomes)
    /\ [][config' = config]_vars

\* the session of loose_chance, run on the instance whose previous session
\* (the one of line 139) was ruined, returned a gain
GainAfterRuinedSession ==
    /\ Returned
    /\ call = "loose_chance"
    /\ first_game_money > start_money
    /\ start_money > 0
    /\ result[Len(result)] = 0 - start_money
    /\ ~ruin
    /\ ReturnedValue > start_money

\* rounds n_games .. Len(os)-1 were all lost
LostFromLastFixed(os) ==
    \A k \in n_games..(Len(os) - 1) : os[k] # chosen_color

\* C8: a session that is not ruined plays exactly n_games rounds in the fixed
\* phase; rounds beyond n_games are played only with play_till_win, without
\* ruin and after a lost round n_games; the extension stops right after its
\* first win; without play_till_win no session plays more than n_games rounds.
RoundsAndPhases ==
    /\ pc = "fixed" => (Len(outs) = i /\ i <= n_games)
    /\ pc = "ext" => /\ Ptw
                     /\ Len(outs) >= n_games
                     /\ LostFromLastFixed(outs)
    /\ Returned =>
        /\ ruin => Len(outs) <= n_games
        /\ ~ruin => Len(outs) >= n_games
        /\ ~Ptw => Len(outs) <= n_games
        /\ Len(outs) > n_games =>
              /\ Ptw
              /\ ~ruin
              /\ LostFromLastFixed(outs)
              /\ outs[Len(outs)] = chosen_color
        /\ (Ptw /\ ~ruin) => outs[Len(outs)] = chosen_color

\* a session returned after two rounds of extension
ReturnedFromExtension ==
    /\ Returned
    /\ Len(outs) = n_games + 2
    /\ outs[Len(outs)] = chosen_color

\* C9: a session that returns without ruin after a won last round returns at
\* least start_money; so does every non-ruined session under play_till_win.
WinReturnsAtLeastStart ==
    (Returned /\ ~ruin /\ first_game_money > 0 /\ rate >= 1)
        => /\ outs[Len(outs)] = chosen_color => ReturnedValue >= start_money
           /\ Ptw => ReturnedValue >= start_money

\* a play_till_win session returned after a lost fixed phase and a won extension
WonAfterLosses ==
    /\ Returned
    /\ ~ruin
    /\ Ptw
    /\ Len(outs) > n_games
    /\ outs[Len(outs)] = chosen_color
    /\ ReturnedValue > start_money

\* C10: every session eventually returns, provided the chosen colour is
\* eventually sampled in the extension phase.
SessionReturns == (pc = "fixed") ~> (pc = "idle")

\* a session with n_games = 1 returned a win that followed at least one loss
ReturnedAfterExtension ==
    /\ Returned
    /\ ~track
    /\ n_games = 1
    /\ rate > 1
    /\ ReturnedValue > start_money + first_game_money
====
